---- MODULE Spec2Model ----
(***************************************************************************)
(* Verification model of the Cloud-Dataset-Generator repository:           *)
(*   modules/ee_utils.py        merge_s2_and_cloud_prob, make_grid          *)
(*   modules/mask_processing.py generate_cloud_shadow_masks_sentinel2,      *)
(*                              remove_small_components                     *)
(*   main.py                    main (per-AOI / per-scene batch loop)       *)
(*   modules/visualization.py   visualize_masks (local post-processing)     *)
(*   modules/data_handler.py    download_sentinel_image_and_masks           *)
(*                                                                         *)
(* Rasters are finite grids of pixels; a binary mask is represented by the *)
(* set of its foreground pixels.  Reflectance thresholds are fractions     *)
(* <<num, den>> (0.3 is <<3, 10>>) and nir = B8 / 10000 is compared with    *)
(* them exactly, by cross-multiplication.                                  *)
(***************************************************************************)
EXTENDS Integers, Sequences, FiniteSets, TLC

VARIABLES
    \* ---- merge_s2_and_cloud_prob ----
    s2_sr_col,          \* primary collection: sequence of images
    s2_cp_col,          \* secondary collection: sequence of images
    joined_collection,  \* result of inner_join.apply: sequence of [primary, secondary]
    merged,             \* result of joined_collection.map(merge_bands)
    join_pc,            \* "idle" | "joined" | "returned"
    \* ---- generate_cloud_shadow_masks_sentinel2 ----
    patch,              \* the scene: the pixels of kind kinds[1] ...
    kinds,              \* ... and the two pixel kinds [SCL, probability, B8]
    params,             \* [cloud_prob_threshold, morphology_radius, nir_threshold, cloud_nir_threshold]
    edge,               \* treatment of out-of-footprint neighbours by the focal operators
    combined_cloud_mask,
    combined_shadow_mask,
    refined_cloud_mask,
    refined_shadow_mask,
    mask_pc,            \* "idle" | "returned"
    \* ---- remove_small_components ----
    mask_array,         \* input mask (its foreground pixels)
    min_size,
    output,             \* returned mask
    rsc_pc,             \* "none" | "idle" | "returned" | "raised"
    \* ---- make_grid ----
    region_coords,      \* ring of the projected bounding box of the AOI
    tile_size_meters,
    grid,               \* tiles generated before the AOI filter (row-major)
    grid_fc,            \* tiles kept by filterBounds(aoi)
    grid_eval,          \* what resolving the deferred collection gives: "ok" | "error"
    grid_pc,            \* "none" | "idle" | "returned" | "raised"
    \* ---- main ----
    scenes_of,          \* environment: number of joined scenes of each AOI
    main_pc,            \* "none" | "aoi" | "scene" | "lookup" | "export" | "visualize" | "done" | "crashed"
    aoi_idx,            \* idx of the AOI loop
    img_idx,            \* img_idx of the scene loop
    n_images,
    attempted,          \* scenes whose loop body was entered, in order: <<idx, img_idx>>
    caught,             \* failures handled by the except clause: <<idx, img_idx, step>>
    failed_step,        \* the step whose exception left main: "" | "aoi_query" | "identity"
    \* ---- visualize_masks ----
    band_count,         \* bands of mask_file; 0 when mask_file is None (single-file case)
    cloud_band,         \* the cloud band as read from the file: pixel -> value
    shadow_band,        \* the shadow band as read from the file: pixel -> value
    remove_components,
    vis_min_size,       \* the min_size argument of visualize_masks
    cloud_mask,         \* the cloud mask that is displayed (its foreground pixels)
    shadow_mask,        \* the shadow mask that is displayed
    vis_pc,             \* "none" | "idle" | "shown" | "raised"
    \* ---- download_sentinel_image_and_masks ----
    image_id,
    image_output_dir,   \* directory path: sequence of components
    mask_output_dir,
    cloud_prob_threshold,
    files,              \* file system: the paths written by the exports
    dl_log,             \* the export calls and their outcomes, in order
    dl_result,          \* the returned tuple; <<>> while nothing is returned
    dl_error,           \* the export whose exception left the function: "" | "image" | "mask"
    dl_pc               \* "none" | "start" | "image_done" | "returned" | "raised"

joinVars == <<s2_sr_col, s2_cp_col, joined_collection, merged, join_pc>>
maskVars == <<patch, kinds, params, edge, combined_cloud_mask, combined_shadow_mask,
              refined_cloud_mask, refined_shadow_mask, mask_pc>>
filterVars == <<mask_array, min_size, output, rsc_pc>>
gridVars == <<region_coords, tile_size_meters, grid, grid_fc, grid_eval, grid_pc>>
mainVars == <<scenes_of, main_pc, aoi_idx, img_idx, n_images, attempted, caught, failed_step>>
visVars == <<band_count, cloud_band, shadow_band, remove_components, vis_min_size,
             cloud_mask, shadow_mask, vis_pc>>
dlVars == <<image_id, image_output_dir, mask_output_dir, cloud_prob_threshold,
            files, dl_log, dl_result, dl_error, dl_pc>>
vars == <<joinVars, maskVars, filterVars, gridVars, mainVars, visVars, dlVars>>

(***************************************************************************)
(* Bounds of the model.                                                    *)
(***************************************************************************)
MaxKey == 3      \* scene identity keys are 1..MaxKey
MaxLen == 3      \* longest input collection of the joiner
GridW == 3       \* raster width in pixels
GridH == 3       \* raster height in pixels
MaxPatch == 3    \* pixels of a scene that differ from its base pixel kind
MaxRadius == 1   \* largest morphology_radius tried
MaxMinSize == 4  \* min_size ranges over -1..MaxMinSize and the default
MaxExtent == 10  \* bounding-box extents are 1..MaxExtent hundred metres
MaxTile == 5     \* tile sizes are -1..MaxTile hundred metres
MaxScenes == 2   \* most joined scenes of one AOI

(***************************************************************************)
(* Generic helpers.                                                        *)
(***************************************************************************)
RECURSIVE SeqsUpTo(_, _)
SeqsUpTo(S, n) ==
    IF n = 0 THEN {<<>>}
    ELSE LET shorter == SeqsUpTo(S, n - 1)
         IN  shorter \cup {Append(s, x) : s \in {t \in shorter : Len(t) = n - 1}, x \in S}

RECURSIVE FlattenSeq(_)
FlattenSeq(ss) == IF ss = <<>> THEN <<>> ELSE Head(ss) \o FlattenSeq(Tail(ss))

Count(s, P(_)) == Cardinality({i \in 1..Len(s) : P(s[i])})

(***************************************************************************)
(* merge_s2_and_cloud_prob (ee_utils.py 18-37).                            *)
(* An image is [index, bands]; index is its system:index property.         *)
(***************************************************************************)
Keys == 1..MaxKey
SRBands == {"B2", "B3", "B4", "B8", "SCL"}
CPBands == {"probability"}

SRImage(k) == [index |-> k, bands |-> SRBands, src |-> "S2_SR"]
CPImage(k) == [index |-> k, bands |-> CPBands, src |-> "S2_CLOUD_PROBABILITY"]

\* ee.Filter.equals(leftField='system:index', rightField='system:index')
filter_time_eq_bug(p, s) == p.index <= s.index
filter_time_eq(p, s) == p.index = s.index

\* ee.Join.inner().apply(primary, secondary, condition): one feature
\* {primary, secondary} for every pair of elements satisfying the condition,
\* primaries in collection order, each with its matches in secondary order.
MatchesOf(p, secondary) ==
    LET F[i \in 0..Len(secondary)] ==
            IF i = 0 THEN <<>>
            ELSE IF filter_time_eq(p, secondary[i])
                 THEN Append(F[i - 1], [primary |-> p, secondary |-> secondary[i]])
                 ELSE F[i - 1]
    IN  F[Len(secondary)]

InnerJoinApply(primary, secondary) ==
    FlattenSeq([i \in 1..Len(primary) |-> MatchesOf(primary[i], secondary)])

\* merge_bands: primary.addBands(secondary.select('probability'))
merge_bands(feature) ==
    [index |-> feature.primary.index,
     bands |-> feature.primary.bands \cup (feature.secondary.bands \cap {"probability"}),
     src   |-> feature.primary.src]

JoinIdle ==
    /\ joined_collection = <<>>
    /\ merged = <<>>
    /\ join_pc = "idle"

JoinInit ==
    /\ s2_sr_col \in {[i \in 1..Len(ks) |-> SRImage(ks[i])] : ks \in SeqsUpTo(Keys, MaxLen)}
    /\ s2_cp_col \in {[i \in 1..Len(ks) |-> CPImage(ks[i])] : ks \in SeqsUpTo(Keys, MaxLen)}
    /\ JoinIdle

\* lines 24-29
ApplyInnerJoin ==
    /\ join_pc = "idle"
    /\ joined_collection' = InnerJoinApply(s2_sr_col, s2_cp_col)
    /\ join_pc' = "joined"
    /\ UNCHANGED <<s2_sr_col, s2_cp_col, merged>>
    /\ UNCHANGED <<maskVars, filterVars, gridVars, mainVars, visVars, dlVars>>

\* lines 31-37
MapMergeBands ==
    /\ join_pc = "joined"
    /\ merged' = [i \in 1..Len(joined_collection) |-> merge_bands(joined_collection[i])]
    /\ join_pc' = "returned"
    /\ UNCHANGED <<s2_sr_col, s2_cp_col, joined_collection>>
    /\ UNCHANGED <<maskVars, filterVars, gridVars, mainVars, visVars, dlVars>>

(***************************************************************************)
(* Rasters and morphology.                                                 *)
(***************************************************************************)
Pixels == (1..GridW) \X (1..GridH)

\* ee.Kernel.circle(radius, 'pixels'): offsets within Euclidean distance radius
\* (the default kernelType of focal_min / focal_max).
Kernel(r) == {d \in (-r..r) \X (-r..r) : d[1] * d[1] + d[2] * d[2] <= r * r}

Shift(p, d) == <<p[1] + d[1], p[2] + d[2]>>

\* Out-of-footprint neighbours: "background" counts them as 0 in the minimum
\* (spec 4.3); "ignored" leaves them out of the reduction (masked inputs are
\* skipped by the neighbourhood reducer).  A maximum is the same under both.
EdgeModes == {"background", "ignored"}

\* (The results are built as enumerated sets, {x : x \in S}, so that the
\* next operator does not evaluate the previous one again for every pixel.)
focal_min(M, r, e) ==
    LET K == {d : d \in Kernel(r)}
        kept == {p \in M : \A d \in K :
                    LET q == Shift(p, d) IN IF q \in Pixels THEN q \in M ELSE e = "ignored"}
    IN  {p : p \in kept}

focal_max(M, r) ==
    LET K == {d : d \in Kernel(r)}
        lit == {p \in Pixels : \E d \in K : Shift(p, d) \in M}
    IN  {p : p \in lit}

\* mask.focal_min(radius).focal_max(radius)
Opening_radii(M, r, e) == focal_max(focal_min(M, r, e), r + 1)
Opening(M, r, e) == focal_max(focal_min(M, r, e), r)

MaskIdle ==
    /\ combined_cloud_mask = {}
    /\ combined_shadow_mask = {}
    /\ refined_cloud_mask = {}
    /\ refined_shadow_mask = {}
    /\ mask_pc = "idle"

MaskNoCall ==
    /\ patch = {}
    /\ kinds = <<>>
    /\ params = <<>>
    /\ edge = "background"
    /\ MaskIdle

JoinNoCall ==
    /\ s2_sr_col = <<>>
    /\ s2_cp_col = <<>>
    /\ JoinIdle

(***************************************************************************)
(* generate_cloud_shadow_masks_sentinel2 (mask_processing.py 4-97).        *)
(***************************************************************************)
NirScale == 10000                  \* line 43: nir = B8 / 10000
DefaultCloudProbThreshold == 50
DefaultMorphologyRadius == 1
DefaultNirThreshold == <<2, 10>>        \* 0.2
DefaultCloudNirThreshold == <<3, 10>>   \* 0.3

\* image.select('B8').divide(10000).gt(t) and .lt(t), t = <<num, den>>
NirGt(b8, t) == b8 * t[2] > t[1] * NirScale
NirLt(b8, t) == b8 * t[2] < t[1] * NirScale

DefaultParams ==
    [cloud_prob_threshold |-> DefaultCloudProbThreshold,
     morphology_radius    |-> DefaultMorphologyRadius,
     nir_threshold        |-> DefaultNirThreshold,
     cloud_nir_threshold  |-> DefaultCloudNirThreshold]

\* The settings tried (parameters and edge treatment): the defaults with every
\* radius under both edge treatments (one for radius 0, where no neighbour is
\* read), and the defaults with one threshold moved.
ProbThresholds == {10, DefaultCloudProbThreshold, 80}
ParamSets ==
    {[DefaultParams EXCEPT !.morphology_radius = r] : r \in 0..MaxRadius}
    \cup {[DefaultParams EXCEPT !.cloud_prob_threshold = 80],
          [DefaultParams EXCEPT !.cloud_nir_threshold = <<38, 100>>],
          [DefaultParams EXCEPT !.nir_threshold = <<1, 10>>]}
Settings ==
    {st \in ParamSets \X EdgeModes :
        st[2] = "ignored" => (st[1].morphology_radius > 0 /\ st[1] \in
            {[DefaultParams EXCEPT !.morphology_radius = r] : r \in 0..MaxRadius})}

\* Pixel kinds a scene is painted with (SCL code, probability 0-100, B8 counts).
Px(scl, prob, b8) == [SCL |-> scl, probability |-> prob, B8 |-> b8]
CloudHigh == Px(9, 20, 3500)    \* cloud-high-proba, nir 0.35
BareSoil == Px(5, 70, 4000)     \* bare soil, probable and bright
Class7 == Px(7, 90, 4000)       \* class 7, probable and bright
Water == Px(6, 0, 500)          \* water, dark
DarkVeg == Px(4, 60, 1500)      \* vegetation, dark
Probable == Px(4, 70, 4000)     \* probable and bright, no cloud class
ShadowClass == Px(3, 10, 2500)  \* cloud-shadow class

\* The two kinds of a scene: each guarded class beside a class the rules
\* select, and the two cloud rules beside each other; in both roles.
KindPairs ==
    LET P == {<<CloudHigh, BareSoil>>, <<Probable, Class7>>, <<DarkVeg, Water>>,
              <<ShadowClass, Water>>, <<CloudHigh, Probable>>}
    IN  P \cup {<<k[2], k[1]>> : k \in P}

PatchSets == {S \in SUBSET Pixels : Cardinality(S) <= MaxPatch}

\* The image of the call: band values of pixel p (SCL, probability, B8).
\* The pixels of the patch are of one kind, the others of the other.
image(p) == IF p \in patch THEN kinds[1] ELSE kinds[2]

\* line 46: bright_cloud = nir.gt(cloud_nir_threshold)
bright_cloud(px, cloud_nir_threshold) == NirGt(px.B8, cloud_nir_threshold)

\* lines 54-58
cloud_mask_scl_bug(px, prm) ==
    /\ (px.SCL = 8 \/ px.SCL = 10 \/ px.SCL = 11)
    /\ bright_cloud(px, prm.cloud_nir_threshold)
cloud_mask_scl(px, prm) ==
    /\ (px.SCL = 8 \/ px.SCL = 9 \/ px.SCL = 10 \/ px.SCL = 11)
    /\ bright_cloud(px, prm.cloud_nir_threshold)

\* lines 63-67
cloud_mask_prob_lt(px, prm) ==
    /\ px.probability < prm.cloud_prob_threshold
    /\ bright_cloud(px, prm.cloud_nir_threshold)
    /\ px.SCL # 5
    /\ px.SCL # 7
cloud_mask_prob_nosoil(px, prm) ==
    /\ px.probability > prm.cloud_prob_threshold
    /\ bright_cloud(px, prm.cloud_nir_threshold)
cloud_mask_prob(px, prm) ==
    /\ px.probability > prm.cloud_prob_threshold
    /\ bright_cloud(px, prm.cloud_nir_threshold)
    /\ px.SCL # 5
    /\ px.SCL # 7

\* the probability rule's contribution at threshold t (lines 63-67)
ProbRule(prm, t) ==
    LET at == [prm EXCEPT !.cloud_prob_threshold = t]
        sel == {p \in Pixels : cloud_mask_prob(image(p), at)}
    IN  {p : p \in sel}

\* line 70
CombinedCloudMask(prm) ==
    {p \in Pixels : cloud_mask_scl(image(p), prm) \/ cloud_mask_prob(image(p), prm)}

\* line 81
shadow_mask_scl(px) == px.SCL = 3

\* lines 86-87
water_mask(px) == px.SCL = 6
shadow_mask_dark_nowater(px, prm) == NirLt(px.B8, prm.nir_threshold)
shadow_mask_dark(px, prm) == NirLt(px.B8, prm.nir_threshold) /\ ~water_mask(px)

\* line 90
CombinedShadowMask(prm) ==
    {p \in Pixels : shadow_mask_scl(image(p)) \/ shadow_mask_dark(image(p), prm)}

MaskInit ==
    /\ patch \in PatchSets
    /\ kinds \in KindPairs
    /\ \E st \in Settings : params = st[1] /\ edge = st[2]
    /\ MaskIdle

\* the whole call, lines 39-97
GenerateCloudShadowMasks ==
    /\ mask_pc = "idle"
    /\ combined_cloud_mask' = CombinedCloudMask(params)
    /\ combined_shadow_mask' = CombinedShadowMask(params)
    /\ refined_cloud_mask' = Opening(combined_cloud_mask', params.morphology_radius, edge)
    /\ refined_shadow_mask' = Opening(combined_shadow_mask', params.morphology_radius, edge)
    /\ mask_pc' = "returned"
    /\ UNCHANGED <<patch, kinds, params, edge>>
    /\ UNCHANGED <<joinVars, filterVars, gridVars, mainVars, visVars, dlVars>>

(***************************************************************************)
(* Claims about the mask synthesizer (SpecMask).                           *)
(***************************************************************************)
ScenarioAPixel(p) == image(p).SCL = 9 /\ image(p).B8 = 3500
SoilPixel(p) == image(p).SCL = 5 \/ image(p).SCL = 7
Neighbours(p) == {Shift(p, d) : d \in Kernel(1)} \cap Pixels

\* C3 as stated: with the default parameters every pixel with SCL 9 and
\* nir 0.35 is 1 in the returned (refined) cloud mask.
ScenarioA_Returned ==
    (mask_pc = "returned" /\ params = DefaultParams)
        => \A p \in Pixels : ScenarioAPixel(p) => p \in refined_cloud_mask

\* C3 amended: with the default parameters every pixel with SCL 9 and nir 0.35
\* is 1 in the combined cloud mask before refinement (Rule A), and is 1 in the
\* returned mask whenever its four edge-neighbours all lie inside the raster
\* and are 1 in the combined mask too.
ScenarioA_Combined ==
    (mask_pc = "returned" /\ params = DefaultParams)
        => \A p \in Pixels : ScenarioAPixel(p) =>
              /\ p \in combined_cloud_mask
              /\ (\A d \in Kernel(1) : Shift(p, d) \in combined_cloud_mask)
                     => p \in refined_cloud_mask

ScenarioA_Witness ==
    /\ mask_pc = "returned" /\ params = DefaultParams
    /\ \E p \in Pixels :
          /\ ScenarioAPixel(p)
          /\ \A d \in Kernel(1) : Shift(p, d) \in combined_cloud_mask
          /\ p \in refined_cloud_mask
    /\ \E q \in Pixels : ScenarioAPixel(q) /\ q \notin refined_cloud_mask

\* C4: soil-class guard: no pixel whose SCL is 5 or 7 is 1 in the returned
\* cloud mask, whatever its probability, brightness, neighbours and parameters.
SoilClassGuard ==
    mask_pc = "returned" => \A p \in Pixels : SoilPixel(p) => p \notin refined_cloud_mask

SoilClassGuard_Witness ==
    /\ mask_pc = "returned"
    /\ \E p \in Pixels :
          /\ image(p) = BareSoil
          /\ image(p).probability > params.cloud_prob_threshold
          /\ bright_cloud(image(p), params.cloud_nir_threshold)
          /\ p \notin refined_cloud_mask
          /\ \E q \in Neighbours(p) : q \in refined_cloud_mask

\* C5: water exclusion: no pixel whose SCL is 6 is 1 in the returned shadow mask.
WaterExclusion ==
    mask_pc = "returned" => \A p \in Pixels : image(p).SCL = 6 => p \notin refined_shadow_mask

WaterExclusion_Witness ==
    /\ mask_pc = "returned"
    /\ \E p \in Pixels :
          /\ image(p).SCL = 6
          /\ NirLt(image(p).B8, params.nir_threshold)
          /\ p \notin refined_shadow_mask
          /\ \E q \in Neighbours(p) : q \in refined_shadow_mask

\* C6: threshold monotonicity: for thresholds t1 <= t2 the pixels the
\* probability rule selects at t2 are a subset of those it selects at t1.
ThresholdMonotonicity ==
    mask_pc = "returned" =>
        \A t1, t2 \in ProbThresholds :
            t1 <= t2 => ProbRule(params, t2) \subseteq ProbRule(params, t1)

ThresholdMonotonicity_Witness ==
    /\ mask_pc = "returned"
    /\ \E t1, t2 \in ProbThresholds :
          /\ t1 < t2
          /\ ProbRule(params, t2) # {}
          /\ ProbRule(params, t2) # ProbRule(params, t1)
          /\ params.cloud_prob_threshold = t2
          /\ ProbRule(params, t2) \subseteq combined_cloud_mask

\* C7: idempotence of the opening: refining the returned masks once more with
\* the same radius leaves them unchanged (under either edge treatment, so in
\* particular with out-of-grid neighbours as background).
OpeningIdempotent ==
    mask_pc = "returned" =>
        /\ Opening(refined_cloud_mask, params.morphology_radius, edge) = refined_cloud_mask
        /\ Opening(refined_shadow_mask, params.morphology_radius, edge) = refined_shadow_mask

OpeningIdempotent_Witness ==
    /\ mask_pc = "returned"
    /\ edge = "background"
    /\ params.morphology_radius >= 1
    /\ refined_cloud_mask # {}
    /\ refined_cloud_mask # combined_cloud_mask
    /\ refined_cloud_mask # Pixels


(***************************************************************************)
(* remove_small_components (mask_processing.py 99-122).                    *)
(***************************************************************************)
DefaultMinSize == 8

\* generate_binary_structure(2, 2): the 3x3 neighbourhood (8-connectivity);
\* generate_binary_structure(2, 1) would be the 4-connected cross.
structure_cross == {d \in (-1..1) \X (-1..1) : d[1] * d[1] + d[2] * d[2] <= 1}
structure == (-1..1) \X (-1..1)

\* Flood fill of the component of M that holds the pixels of `seen`.
RECURSIVE Fill(_, _)
Fill(M, seen) ==
    LET more == {q \in M \ seen : \E p \in seen, d \in structure : q = Shift(p, d)}
    IN  IF more = {} THEN seen ELSE Fill(M, seen \cup more)

\* first foreground pixel in raster (row-major) order
RasterBefore(p, q) == p[2] < q[2] \/ (p[2] = q[2] /\ p[1] < q[1])
FirstPixel(S) == CHOOSE p \in S : \A q \in S \ {p} : RasterBefore(p, q)

\* scipy.ndimage.label(mask_array, structure): components numbered 1..ncomponents
\* in raster order of their first pixel; the sequence of their pixel sets.
RECURSIVE Label(_)
Label(M) ==
    IF M = {} THEN <<>>
    ELSE LET comp == Fill(M, {FirstPixel(M)})
         IN  <<comp>> \o Label(M \ comp)

\* line 119: np.sum(component_mask) < min_size
IsSmall_inverted(size, m) == size >= m
IsSmall(size, m) == size < m

\* lines 116-122: output = copy(mask); zero every small component
RECURSIVE ZeroSmall(_, _, _, _)
ZeroSmall(out, labeled, comp_id, m) ==
    IF comp_id > Len(labeled) THEN out
    ELSE ZeroSmall(IF IsSmall(Cardinality(labeled[comp_id]), m)
                   THEN out \ labeled[comp_id] ELSE out,
                   labeled, comp_id + 1, m)

remove_small_components(mask, m) == ZeroSmall(mask, Label(mask), 1, m)

\* Masks tried: at most MaxPatch foreground or at most MaxPatch background pixels.
Masks ==
    {S \in SUBSET Pixels : Cardinality(S) <= MaxPatch \/ Cardinality(Pixels \ S) <= MaxPatch}
MinSizes == (-1..MaxMinSize) \cup {DefaultMinSize}

FilterNoCall ==
    /\ mask_array = {}
    /\ min_size = DefaultMinSize
    /\ output = {}
    /\ rsc_pc = "none"

FilterInit ==
    /\ mask_array \in Masks
    /\ min_size \in MinSizes
    /\ output = {}
    /\ rsc_pc = "idle"

\* the whole call; the function has no raise and no early return
RemoveSmallComponents ==
    /\ rsc_pc = "idle"
    /\ output' = remove_small_components(mask_array, min_size)
    /\ rsc_pc' = "returned"
    /\ UNCHANGED <<mask_array, min_size>>
    /\ UNCHANGED <<joinVars, maskVars, gridVars, mainVars, visVars, dlVars>>

(***************************************************************************)
(* make_grid (ee_utils.py 71-154).  Coordinates are metres in the          *)
(* projected system (EPSG:3857); the AOI is a rectangle, whose projected   *)
(* bounds ring is region_coords.                                           *)
(***************************************************************************)
Hm(k) == 100 * k

Min2(a, b) == IF a <= b THEN a ELSE b
Max2(a, b) == IF a >= b THEN a ELSE b

\* x.divide(s).ceil(), s # 0
Ceil_floor(a, s) == IF s > 0 THEN a \div s ELSE -((-a) \div (-s))
Ceil(a, s) == IF s > 0 THEN -((-a) \div s) ELSE -(a \div (-s))

\* ee.List.sequence(0, n - 1): 0, 1, .., n-1; empty when n - 1 < 0
Sequence0(n) == [i \in 1..n |-> i - 1]

\* lines 100-113
get_x(coords, idx) == coords[idx + 1][1]
get_y(coords, idx) == coords[idx + 1][2]
x_min(coords) == Min2(Min2(Min2(get_x(coords, 0), get_x(coords, 1)), get_x(coords, 2)), get_x(coords, 3))
x_max(coords) == Max2(Max2(Max2(get_x(coords, 0), get_x(coords, 1)), get_x(coords, 2)), get_x(coords, 3))
y_min(coords) == Min2(Min2(Min2(get_y(coords, 0), get_y(coords, 1)), get_y(coords, 2)), get_y(coords, 3))
y_max(coords) == Max2(Max2(Max2(get_y(coords, 0), get_y(coords, 1)), get_y(coords, 2)), get_y(coords, 3))

\* lines 116-117
x_tiles(coords, s) == Ceil(x_max(coords) - x_min(coords), s)
y_tiles(coords, s) == Ceil(y_max(coords) - y_min(coords), s)

\* lines 127-140: the tile of index pair (x_i, y_i)
map_x(coords, s, x_i, y_i) ==
    LET x0 == x_min(coords) + x_i * s
        y0 == y_min(coords) + y_i * s
    IN  [x0 |-> x0, y0 |-> y0, x1 |-> x0 + s, y1 |-> y0 + s, x_i |-> x_i, y_i |-> y_i]

\* lines 124-145: y_indices.map(map_y).flatten()
map_y(coords, s, y_i) ==
    LET x_indices == Sequence0(x_tiles(coords, s))
    IN  [k \in 1..Len(x_indices) |-> map_x(coords, s, x_indices[k], y_i)]

MakeTiles(coords, s) ==
    LET y_indices == Sequence0(y_tiles(coords, s))
    IN  FlattenSeq([k \in 1..Len(y_indices) |-> map_y(coords, s, y_indices[k])])

\* line 152: filterBounds(aoi): the tiles that intersect the AOI rectangle
Intersects(t, coords) ==
    /\ Min2(t.x0, t.x1) <= x_max(coords) /\ Max2(t.x0, t.x1) >= x_min(coords)
    /\ Min2(t.y0, t.y1) <= y_max(coords) /\ Max2(t.y0, t.y1) >= y_min(coords)

RECURSIVE FilterBounds(_, _)
FilterBounds(tiles, coords) ==
    IF tiles = <<>> THEN <<>>
    ELSE (IF Intersects(Head(tiles), coords) THEN <<Head(tiles)>> ELSE <<>>)
         \o FilterBounds(Tail(tiles), coords)

\* the bounds ring of a rectangle, starting at any of its corners
Ring(x0, y0, x1, y1, start) ==
    LET c == <<<<x0, y0>>, <<x1, y0>>, <<x1, y1>>, <<x0, y1>>>>
    IN  [i \in 1..5 |-> c[((start + i - 1) % 4) + 1]]

GridNoCall ==
    /\ region_coords = <<>>
    /\ tile_size_meters = 0
    /\ grid = <<>>
    /\ grid_fc = <<>>
    /\ grid_eval = "ok"
    /\ grid_pc = "none"

GridInit ==
    /\ \E x0 \in {Hm(-3), 0}, y0 \in {0, Hm(2)}, w \in 1..MaxExtent, h \in 1..MaxExtent,
          start \in {0, 2} :
          region_coords = Ring(x0, y0, x0 + Hm(w), y0 + Hm(h), start)
    /\ tile_size_meters \in {Hm(k) : k \in -1..MaxTile}
    /\ grid = <<>>
    /\ grid_fc = <<>>
    /\ grid_eval = "ok"
    /\ grid_pc = "idle"

\* The call with a positive tile size.  The function builds the deferred
\* collection and returns it; nothing in it raises.
MakeGrid ==
    /\ grid_pc = "idle"
    /\ tile_size_meters > 0
    /\ grid' = MakeTiles(region_coords, tile_size_meters)
    /\ grid_fc' = FilterBounds(MakeTiles(region_coords, tile_size_meters), region_coords)
    /\ grid_eval' = "ok"
    /\ grid_pc' = "returned"
    /\ UNCHANGED <<region_coords, tile_size_meters>>
    /\ UNCHANGED <<joinVars, maskVars, filterVars, mainVars, visVars, dlVars>>

\* The call with a non-positive tile size: the function still returns the
\* deferred collection.  Resolving it divides by the tile size and takes
\* List.sequence(0, n - 1) with n <= 0: the service either yields no tile or
\* reports an evaluation error.
MakeGridNonPositive ==
    /\ grid_pc = "idle"
    /\ tile_size_meters <= 0
    /\ grid' = <<>>
    /\ grid_fc' = <<>>
    /\ grid_eval' \in {"ok", "error"}
    /\ grid_pc' = "returned"
    /\ UNCHANGED <<region_coords, tile_size_meters>>
    /\ UNCHANGED <<joinVars, maskVars, filterVars, mainVars, visVars, dlVars>>

(***************************************************************************)
(* Claims about the collection joiner (SpecJoin).                          *)
(***************************************************************************)
UniqueKeys(col) == \A i, j \in 1..Len(col) : col[i].index = col[j].index => i = j
KeysOf(col) == {col[i].index : i \in 1..Len(col)}

\* C1: inner join on equality of system:index: when the keys are unique within
\* each input, the output holds exactly one combined record (the primary's
\* bands plus probability) for every key present in both inputs and none for
\* any other key; an empty intersection gives an empty output.
InnerJoinOnIndex ==
    (join_pc = "returned" /\ UniqueKeys(s2_sr_col) /\ UniqueKeys(s2_cp_col)) =>
        /\ \A k \in Keys :
              Cardinality({i \in 1..Len(merged) : merged[i].index = k})
                = IF k \in KeysOf(s2_sr_col) \cap KeysOf(s2_cp_col) THEN 1 ELSE 0
        /\ \A i \in 1..Len(merged) :
              /\ merged[i].bands = SRBands \cup {"probability"}
              /\ merged[i].src = "S2_SR"
        /\ (KeysOf(s2_sr_col) \cap KeysOf(s2_cp_col) = {} => merged = <<>>)

InnerJoinOnIndex_Witness ==
    /\ join_pc = "returned"
    /\ UniqueKeys(s2_sr_col) /\ UniqueKeys(s2_cp_col)
    /\ KeysOf(s2_sr_col) \cap KeysOf(s2_cp_col) # {}
    /\ KeysOf(s2_sr_col) \ KeysOf(s2_cp_col) # {}
    /\ KeysOf(s2_cp_col) \ KeysOf(s2_sr_col) # {}
    /\ Len(merged) = Cardinality(KeysOf(s2_sr_col) \cap KeysOf(s2_cp_col))

(***************************************************************************)
(* Claims about the component filter and the tile grid (SpecTools).        *)
(***************************************************************************)
Abs(n) == IF n < 0 THEN -n ELSE n
Adjacent8(p, q) == p # q /\ Abs(p[1] - q[1]) <= 1 /\ Abs(p[2] - q[2]) <= 1

\* the maximal 8-connected set of foreground pixels of M around the pixels of R
RECURSIVE Reach(_, _)
Reach(M, R) ==
    LET step == R \cup {q \in M : \E r \in R : Adjacent8(r, q)}
    IN  IF step = R THEN R ELSE Reach(M, step)
ComponentOf(M, p) == Reach(M, {p})

\* C2: the foreground of the result is exactly the union of the maximal
\* 8-connected components of the input with at least min_size pixels.
ComponentFilterExact ==
    rsc_pc = "returned" =>
        output = {p \in mask_array : Cardinality(ComponentOf(mask_array, p)) >= min_size}

ComponentFilterExact_Witness ==
    /\ rsc_pc = "returned"
    /\ min_size >= 2
    /\ \E p, q \in mask_array :
          /\ Cardinality(ComponentOf(mask_array, p)) = min_size
          /\ \E r \in ComponentOf(mask_array, p) :
                r # p /\ Abs(r[1] - p[1]) = 1 /\ Abs(r[2] - p[2]) = 1
          /\ p \in output
          /\ Cardinality(ComponentOf(mask_array, q)) < min_size
          /\ q \notin output

BoxXs == {region_coords[i][1] : i \in 1..Len(region_coords)}
BoxYs == {region_coords[i][2] : i \in 1..Len(region_coords)}
IsLeast(x, S) == x \in S /\ \A y \in S : x <= y
IsGreatest(x, S) == x \in S /\ \A y \in S : x >= y
\* n = ceil(a / s), for a > 0 and s > 0
IsCeil(n, a, s) == n * s >= a /\ (n - 1) * s < a

TilesAsClaimed(bx, by, ex, ey, nx, ny, s) ==
    /\ Len(grid) = nx * ny
    /\ \A i \in 0..(nx - 1), j \in 0..(ny - 1) :
          Cardinality({k \in 1..Len(grid) :
              /\ grid[k].x0 = bx + i * s /\ grid[k].y0 = by + j * s
              /\ grid[k].x1 = bx + (i + 1) * s /\ grid[k].y1 = by + (j + 1) * s}) = 1
    /\ \A k \in 1..Len(grid) :
          grid[k].x1 - grid[k].x0 = s /\ grid[k].y1 - grid[k].y0 = s
    /\ \A x \in {bx + Hm(a) : a \in 0..MaxExtent} \cup {ex},
          y \in {by + Hm(b) : b \in 0..MaxExtent} \cup {ey} :
          (x <= ex /\ y <= ey) =>
              \E k \in 1..Len(grid) :
                  /\ grid[k].x0 <= x /\ x <= grid[k].x1
                  /\ grid[k].y0 <= y /\ y <= grid[k].y1

\* C8: for a positive tile size s the tiles generated before the AOI filter
\* are exactly one per index pair (i, j), 0 <= i < ceil(width / s),
\* 0 <= j < ceil(height / s), each from (x_min + i*s, y_min + j*s) to
\* (x_min + (i+1)*s, y_min + (j+1)*s), and they cover the bounding box.
TileCoverage ==
    (grid_pc = "returned" /\ tile_size_meters > 0) =>
        \E bx, ex \in BoxXs, by, ey \in BoxYs :
            /\ IsLeast(bx, BoxXs) /\ IsGreatest(ex, BoxXs)
            /\ IsLeast(by, BoxYs) /\ IsGreatest(ey, BoxYs)
            /\ \E nx \in 1..(ex - bx), ny \in 1..(ey - by) :
                  /\ IsCeil(nx, ex - bx, tile_size_meters)
                  /\ IsCeil(ny, ey - by, tile_size_meters)
                  /\ TilesAsClaimed(bx, by, ex, ey, nx, ny, tile_size_meters)

\* 1000 m x 1000 m with 400 m tiles: 3 x 3 = 9 tiles
TileCoverage_Witness ==
    /\ grid_pc = "returned"
    /\ tile_size_meters = 400
    /\ \E bx, ex \in BoxXs : ex - bx = 1000
    /\ \E by, ey \in BoxYs : ey - by = 1000
    /\ Len(grid) = 9
    /\ Len(grid_fc) = 9

NumAois == 3

others == <<joinVars, maskVars, filterVars, gridVars, visVars, dlVars>>

MainNoCall ==
    /\ scenes_of = <<>>
    /\ main_pc = "none"
    /\ aoi_idx = 0
    /\ img_idx = 0
    /\ n_images = 0
    /\ attempted = <<>>
    /\ caught = <<>>
    /\ failed_step = ""

MainInit ==
    /\ scenes_of \in [0..(NumAois - 1) -> 0..MaxScenes]
    /\ main_pc = "aoi"
    /\ aoi_idx = 0
    /\ img_idx = 0
    /\ n_images = 0
    /\ attempted = <<>>
    /\ caught = <<>>
    /\ failed_step = ""

\* lines 21-45: the AOI's queries succeed; n_images is the size of the join
LoopAoi ==
    /\ main_pc = "aoi"
    /\ aoi_idx < NumAois
    /\ n_images' = scenes_of[aoi_idx]
    /\ img_idx' = 0
    /\ main_pc' = "scene"
    /\ UNCHANGED <<scenes_of, aoi_idx, attempted, caught, failed_step, others>>

\* lines 22, 44: a getInfo of the AOI loop raises; nothing catches it
AoiQueryFails ==
    /\ main_pc = "aoi"
    /\ aoi_idx < NumAois
    /\ main_pc' = "crashed"
    /\ failed_step' = "aoi_query"
    /\ UNCHANGED <<scenes_of, aoi_idx, img_idx, n_images, attempted, caught, others>>

\* line 21: the AOI loop is exhausted
Finish ==
    /\ main_pc = "aoi"
    /\ aoi_idx = NumAois
    /\ main_pc' = "done"
    /\ UNCHANGED <<scenes_of, aoi_idx, img_idx, n_images, attempted, caught, failed_step, others>>

\* line 47: next scene of the AOI
LoopScene ==
    /\ main_pc = "scene"
    /\ img_idx < n_images
    /\ attempted' = Append(attempted, <<aoi_idx, img_idx>>)
    /\ main_pc' = "lookup"
    /\ UNCHANGED <<scenes_of, aoi_idx, img_idx, n_images, caught, failed_step, others>>

\* line 47: the scene loop is exhausted
EndAoi ==
    /\ main_pc = "scene"
    /\ img_idx = n_images
    /\ aoi_idx' = aoi_idx + 1
    /\ main_pc' = "aoi"
    /\ UNCHANGED <<scenes_of, img_idx, n_images, attempted, caught, failed_step, others>>

\* lines 48-54: the identity is read
LookupOk ==
    /\ main_pc = "lookup"
    /\ main_pc' = "export"
    /\ UNCHANGED <<scenes_of, aoi_idx, img_idx, n_images, attempted, caught, failed_step, others>>

\* lines 50-52 stand before the try: an exception of getInfo leaves main
LookupFails ==
    /\ main_pc = "lookup"
    /\ main_pc' = "crashed"
    /\ failed_step' = "identity"
    /\ UNCHANGED <<scenes_of, aoi_idx, img_idx, n_images, attempted, caught, others>>

\* lines 56-65
ExportOk ==
    /\ main_pc = "export"
    /\ main_pc' = "visualize"
    /\ UNCHANGED <<scenes_of, aoi_idx, img_idx, n_images, attempted, caught, failed_step, others>>

\* lines 58-64 raise; lines 70-72 catch and continue
ExportFails ==
    /\ main_pc = "export"
    /\ caught' = Append(caught, <<aoi_idx, img_idx, "export">>)
    /\ img_idx' = img_idx + 1
    /\ main_pc' = "scene"
    /\ UNCHANGED <<scenes_of, aoi_idx, n_images, attempted, failed_step, others>>

\* line 68
VisualizeOk ==
    /\ main_pc = "visualize"
    /\ img_idx' = img_idx + 1
    /\ main_pc' = "scene"
    /\ UNCHANGED <<scenes_of, aoi_idx, n_images, attempted, caught, failed_step, others>>

\* line 68 raises; lines 70-72 catch and continue
VisualizeFails ==
    /\ main_pc = "visualize"
    /\ caught' = Append(caught, <<aoi_idx, img_idx, "visualization">>)
    /\ img_idx' = img_idx + 1
    /\ main_pc' = "scene"
    /\ UNCHANGED <<scenes_of, aoi_idx, n_images, attempted, failed_step, others>>

(***************************************************************************)
(* Claims about main (SpecMain).                                           *)
(***************************************************************************)
ScenesOfAoi(a) == [i \in 1..scenes_of[a] |-> <<a, i - 1>>]
AllScenes == FlattenSeq([a \in 1..NumAois |-> ScenesOfAoi(a - 1)])

\* C10: no failure of a scene's step (identity lookup, export, visualization)
\* ends the batch: main is never left through such a failure, and when it
\* ends every scene of every AOI was attempted exactly once, in index order.
PerSceneTryContinue ==
    /\ main_pc = "crashed" => failed_step \notin {"identity", "export", "visualization"}
    /\ main_pc = "done" => attempted = AllScenes

(***************************************************************************)
(* visualize_masks (visualization.py 7-98): the masks are read from the    *)
(* file, binarised, optionally passed through remove_small_components and  *)
(* then opened with a 3x3 kernel before they are displayed.  The opening   *)
(* is OpenCV's morphologyEx(MORPH_OPEN) with its default border: pixels    *)
(* outside the raster never lower an erosion and never raise a dilation.   *)
(***************************************************************************)
CallSiteMinSize == 10    \* main.py line 68: visualize_masks(..., min_size=10)

\* a band as read from the file: value v on the pixels of S, 0 elsewhere
Raster(S, v) == [p \in Pixels |-> IF p \in S THEN v ELSE 0]
BandValues == {1, 255}

\* lines 70-71: (mask > 0).astype(np.uint8)
binarize(band) == {p \in Pixels : band[p] > 0}

\* line 79: kernel = np.ones((3, 3), np.uint8)
kernel == {<<dx, dy>> : dx \in -1..1, dy \in -1..1}

\* erosion and dilation under the 3x3 kernel
cv_erode(M) ==
    LET kept == {p \in Pixels : \A d \in kernel :
                    Shift(p, d) \in Pixels => Shift(p, d) \in M}
    IN  {p : p \in kept}
cv_dilate(M) ==
    LET lit == {p \in Pixels : \E d \in kernel : Shift(p, d) \in M}
    IN  {p : p \in lit}

\* lines 80-81: cv2.morphologyEx(mask, cv2.MORPH_OPEN, kernel)
morphologyEx_open(M) == cv_dilate(cv_erode(M))

\* lines 74-76: the optional component filter
OptionalFilter(M, flag, m) == IF flag THEN remove_small_components(M, m) ELSE M

\* lines 70-81 for one mask
PostProcess(band, flag, m) == morphologyEx_open(OptionalFilter(binarize(band), flag, m))

VisMinSizes == MinSizes \cup {CallSiteMinSize}

VisNoCall ==
    /\ band_count = 0
    /\ cloud_band = <<>>
    /\ shadow_band = <<>>
    /\ remove_components = TRUE
    /\ vis_min_size = DefaultMinSize
    /\ cloud_mask = {}
    /\ shadow_mask = {}
    /\ vis_pc = "none"

VisInit ==
    /\ band_count \in 0..3
    /\ \E S \in Masks, v \in BandValues :
          /\ cloud_band = Raster(S, v)
          /\ shadow_band = Raster(Pixels \ S, v)
    /\ remove_components \in BOOLEAN
    /\ vis_min_size \in VisMinSizes
    /\ cloud_mask = {}
    /\ shadow_mask = {}
    /\ vis_pc = "idle"

\* lines 50-62: a mask file with a single band is rejected
VisualizeMasksBadFile ==
    /\ vis_pc = "idle"
    /\ band_count = 1
    /\ vis_pc' = "raised"
    /\ UNCHANGED <<band_count, cloud_band, shadow_band, remove_components, vis_min_size,
                   cloud_mask, shadow_mask>>
    /\ UNCHANGED <<joinVars, maskVars, filterVars, gridVars, mainVars, dlVars>>

\* lines 50-98: the masks are read, post-processed and displayed
VisualizeMasks ==
    /\ vis_pc = "idle"
    /\ band_count # 1
    /\ cloud_mask' = PostProcess(cloud_band, remove_components, vis_min_size)
    /\ shadow_mask' = PostProcess(shadow_band, remove_components, vis_min_size)
    /\ vis_pc' = "shown"
    /\ UNCHANGED <<band_count, cloud_band, shadow_band, remove_components, vis_min_size>>
    /\ UNCHANGED <<joinVars, maskVars, filterVars, gridVars, mainVars, dlVars>>

(***************************************************************************)
(* Claims about visualize_masks (SpecVis).                                 *)
(***************************************************************************)
MinComponent(M, m) == \A p \in M : Cardinality(ComponentOf(M, p)) >= m

\* C11: after the post-processing with remove_components=True, every
\* 8-connected foreground component of the displayed cloud mask and of the
\* displayed shadow mask has at least min_size pixels.
MinSizeAfterPostProcessing ==
    (vis_pc = "shown" /\ remove_components) =>
        /\ MinComponent(cloud_mask, vis_min_size)
        /\ MinComponent(shadow_mask, vis_min_size)

(***************************************************************************)
(* download_sentinel_image_and_masks (data_handler.py 25-89): the output   *)
(* file names are built from the directories and the scene identity, the   *)
(* image is exported, then the masks.  Each export call either returns,    *)
(* having written its file, or raises; both except clauses re-raise.       *)
(* A path is a directory, a sequence of components, and a file name.       *)
(***************************************************************************)
\* os.path.join(dir, name)
path_join(dir, name) == [dir |-> dir, name |-> name]

\* os.path.normpath: "." components are dropped
normpath(path) == [path EXCEPT !.dir = SelectSeq(path.dir, LAMBDA c : c # ".")]

\* lines 49-53
image_filename == normpath(path_join(image_output_dir, <<"sentinel", image_id, ".tif">>))
mask_filename == normpath(path_join(mask_output_dir, <<"sentinel", image_id, "_mask.tif">>))

OutputDirs == {<<"data", "image">>, <<".", "data", "mask">>, <<"out">>}

\* lines 71-73: the except clause of the image export re-raises
on_image_export_error_swallowed == "image_done"
on_image_export_error == "raised"

DlNoCall ==
    /\ image_id = 0
    /\ image_output_dir = <<>>
    /\ mask_output_dir = <<>>
    /\ cloud_prob_threshold = DefaultCloudProbThreshold
    /\ files = {}
    /\ dl_log = <<>>
    /\ dl_result = <<>>
    /\ dl_error = ""
    /\ dl_pc = "none"

DlInit ==
    /\ image_id \in Keys
    /\ image_output_dir \in OutputDirs
    /\ mask_output_dir \in OutputDirs
    /\ cloud_prob_threshold \in ProbThresholds
    /\ files = {}
    /\ dl_log = <<>>
    /\ dl_result = <<>>
    /\ dl_error = ""
    /\ dl_pc = "start"

\* lines 62-70: the image export returns
ExportImageOk ==
    /\ dl_pc = "start"
    /\ files' = files \cup {image_filename}
    /\ dl_log' = dl_log \o <<"image_attempt", "image_ok">>
    /\ dl_pc' = "image_done"
    /\ UNCHANGED <<image_id, image_output_dir, mask_output_dir, cloud_prob_threshold,
                   dl_result, dl_error>>
    /\ UNCHANGED <<joinVars, maskVars, filterVars, gridVars, mainVars, visVars>>

\* lines 62-73: the image export raises
ExportImageRaises ==
    /\ dl_pc = "start"
    /\ dl_log' = dl_log \o <<"image_attempt", "image_raised">>
    /\ dl_error' = "image"
    /\ dl_pc' = on_image_export_error
    /\ UNCHANGED <<image_id, image_output_dir, mask_output_dir, cloud_prob_threshold,
                   files, dl_result>>
    /\ UNCHANGED <<joinVars, maskVars, filterVars, gridVars, mainVars, visVars>>

\* lines 76-89: the mask export returns and the two file names are returned
ExportMaskOk ==
    /\ dl_pc = "image_done"
    /\ files' = files \cup {mask_filename}
    /\ dl_log' = dl_log \o <<"mask_attempt", "mask_ok">>
    /\ dl_result' = <<image_filename, mask_filename>>
    /\ dl_pc' = "returned"
    /\ UNCHANGED <<image_id, image_output_dir, mask_output_dir, cloud_prob_threshold,
                   dl_error>>
    /\ UNCHANGED <<joinVars, maskVars, filterVars, gridVars, mainVars, visVars>>

\* lines 76-87: the mask export raises
ExportMaskRaises ==
    /\ dl_pc = "image_done"
    /\ dl_log' = dl_log \o <<"mask_attempt", "mask_raised">>
    /\ dl_error' = "mask"
    /\ dl_pc' = "raised"
    /\ UNCHANGED <<image_id, image_output_dir, mask_output_dir, cloud_prob_threshold,
                   files, dl_result>>
    /\ UNCHANGED <<joinVars, maskVars, filterVars, gridVars, mainVars, visVars>>

(***************************************************************************)
(* Claims about download_sentinel_image_and_masks (SpecDownload).          *)
(***************************************************************************)
Logged(e) == \E i \in 1..Len(dl_log) : dl_log[i] = e
Before(e, f) ==
    \A i \in 1..Len(dl_log) : dl_log[i] = f => \E j \in 1..(i - 1) : dl_log[j] = e

\* C12: the mask export is attempted only after the image export returned
\* without raising; when an export raises, the function is left through the
\* exception and returns no pair of file names; no mask file is written
\* for a scene whose image export raised; a returned pair names the two
\* files that were written.
ExportOrdering ==
    /\ Before("image_ok", "mask_attempt")
    /\ (Logged("image_raised") \/ Logged("mask_raised")) =>
          /\ dl_pc = "raised"
          /\ dl_result = <<>>
    /\ Logged("image_raised") =>
          /\ ~Logged("mask_attempt")
          /\ mask_filename \notin files
    /\ dl_result # <<>> =>
          /\ dl_pc = "returned"
          /\ dl_result = <<image_filename, mask_filename>>
          /\ {image_filename, mask_filename} \subseteq files
          /\ dl_log = <<"image_attempt", "image_ok", "mask_attempt", "mask_ok">>

ExportOrdering_Witness ==
    /\ dl_pc = "raised"
    /\ dl_error = "image"
    /\ Logged("image_raised")
    /\ image_output_dir = mask_output_dir
    /\ files = {}
    /\ dl_result = <<>>

(***************************************************************************)
(* Specification of the mask synthesizer.                                  *)
(***************************************************************************)
InitMask == MaskInit /\ JoinNoCall /\ FilterNoCall /\ GridNoCall /\ MainNoCall /\ VisNoCall /\ DlNoCall
NextMask == GenerateCloudShadowMasks
SpecMask == InitMask /\ [][NextMask]_vars

(***************************************************************************)
(* Specification of the collection joiner.                                 *)
(***************************************************************************)
InitJoin == JoinInit /\ MaskNoCall /\ FilterNoCall /\ GridNoCall /\ MainNoCall /\ VisNoCall /\ DlNoCall
NextJoin == ApplyInnerJoin \/ MapMergeBands
SpecJoin == InitJoin /\ [][NextJoin]_vars

(***************************************************************************)
(* Specification of the component filter and the tile grid generator.      *)
(***************************************************************************)
InitTools ==
    /\ JoinNoCall /\ MaskNoCall /\ MainNoCall /\ VisNoCall /\ DlNoCall
    /\ \/ FilterInit /\ GridNoCall
       \/ GridInit /\ FilterNoCall
NextTools == RemoveSmallComponents \/ MakeGrid \/ MakeGridNonPositive
SpecTools == InitTools /\ [][NextTools]_vars

(***************************************************************************)
(* Specification of the batch loop of main.                                *)
(***************************************************************************)
InitMain == MainInit /\ JoinNoCall /\ MaskNoCall /\ FilterNoCall /\ GridNoCall /\ VisNoCall /\ DlNoCall
NextMain ==
    \/ LoopAoi \/ AoiQueryFails \/ Finish
    \/ LoopScene \/ EndAoi
    \/ LookupOk \/ LookupFails
    \/ ExportOk \/ ExportFails
    \/ VisualizeOk \/ VisualizeFails
SpecMain == InitMain /\ [][NextMain]_vars

(***************************************************************************)
(* Specification of the local post-processing of visualize_masks.          *)
(***************************************************************************)
InitVis == VisInit /\ JoinNoCall /\ MaskNoCall /\ FilterNoCall /\ GridNoCall /\ MainNoCall /\ DlNoCall
NextVis == VisualizeMasks \/ VisualizeMasksBadFile
SpecVis == InitVis /\ [][NextVis]_vars

(***************************************************************************)
(* Specification of the export of one scene.                               *)
(***************************************************************************)
InitDownload ==
    DlInit /\ JoinNoCall /\ MaskNoCall /\ FilterNoCall /\ GridNoCall /\ MainNoCall /\ VisNoCall
NextDownload == ExportImageOk \/ ExportImageRaises \/ ExportMaskOk \/ ExportMaskRaises
SpecDownload == InitDownload /\ [][NextDownload]_vars

====
